---------------------------- MODULE Spec2Model ----------------------------
(***************************************************************************)
(* PDF-Text-Remover: the resumable, parallel, two-stream page pipeline of  *)
(* main.py, the retry loop of process_page_with_retry and the merge loop   *)
(* of OCRClient.merge_text_blocks.                                         *)
(*                                                                         *)
(* A raster, a regenerated image and a layout are records                  *)
(*   [st, src, of]                                                         *)
(* st  : "absent" (no file / None), "bad" (undecodable or truncated),      *)
(*       "ok"                                                              *)
(* src : images: "orig" (a page raster), "gen" (image returned by the      *)
(*       remote service); layouts: "none" (zero text blocks), "blocks"     *)
(*       (the text blocks extract_text_layout returned)                    *)
(* of  : the page of the input document the value was derived from         *)
(*       (0: none; the initial in-memory layout has no original_size).     *)
(***************************************************************************)
EXTENDS Integers, Sequences, FiniteSets, TLC

\* ------------------------------------------------------------------ bounds
MaxPages == 2          \* pages of the input document in Spec
BigPages == 10         \* pages of the input document in SpecResume
MaxRuns == 2           \* runs of main started in one behaviour
MaxTamper == 1         \* raster files damaged from outside in one behaviour
MaxReplyLen == 3       \* tokens in one reply of the merge service
MaxBlocks == 1         \* OCR fragments handed to merge_text_blocks
MaxTasks == 4          \* tasks one run submits to one pool
MaxMissing == 2        \* pages a killed run of SpecResume left unprocessed
MaxDim == 2            \* width and height of an image, in pixels
MaxImages == 4         \* images handed to save_images_to_pdf

\* --------------------------------------------------------- program constants
PoolWorkers == 3       \* ThreadPoolExecutor(max_workers=3), both pools
RegenRetries == 5      \* process_page_with_retry(max_retries=5)
MergeRetries == 3      \* merge_text_blocks: max_retries = 3
BackoffSeconds == 2    \* time.sleep(2) before a regeneration retry
EmuPerPixel == 9525     \* Inches(px / 96.0): 914400 EMU per inch, 96 DPI

\* ------------------------------------------------------------------ values
Absent == [st |-> "absent", src |-> "-", of |-> 0]
Bad == [st |-> "bad", src |-> "-", of |-> 0]
Raster(k) == [st |-> "ok", src |-> "orig", of |-> k]
Regenerated(img) == [st |-> "ok", src |-> "gen", of |-> img.of]
Layout(kind, img) == [st |-> "ok", src |-> kind, of |-> img.of]
EmptyLayout == [st |-> "ok", src |-> "none", of |-> 0]
NoRec == [stage |-> 0, completed |-> 0, total |-> 0]

PageIds == 1..(BigPages + 1)

\* An input path: directory, file stem, extension.
P1 == [dir |-> "a", stem |-> "doc", ext |-> "pdf"]
P2 == [dir |-> "b", stem |-> "doc", ext |-> "pdf"]
P3 == [dir |-> "a", stem |-> "other", ext |-> "pdf"]
Paths == {P1, P2, P3}
Stems == {p.stem : p \in Paths}

\* create_temp_dirs: the job's directory is TEMP_DIR/<basename without ext>.
create_temp_dirs(input_path) == input_path.stem

\* ------------------------------------------------ file names and sorted()
RECURSIVE Digits(_)
Digits(n) == IF n < 10 THEN <<n>> ELSE Append(Digits(n \div 10), n % 10)

\* Python string order of 'page_<a>.png' and 'page_<b>.png': the common
\* prefix 'page_' is equal, then the decimal digits are compared character
\* by character, and '.' (0x2E) sorts before every digit (0x30..0x39).
RECURSIVE LexLess(_, _)
LexLess(s, t) ==
    IF s = <<>> THEN t # <<>>
    ELSE IF t = <<>> THEN FALSE
    ELSE IF Head(s) # Head(t) THEN Head(s) < Head(t)
    ELSE LexLess(Tail(s), Tail(t))

NameLess(a, b) == LexLess(Digits(a), Digits(b))

\* sorted([f for f in os.listdir(dir) if f.endswith('.png')]), as page numbers
RECURSIVE sorted(_)
sorted(S) ==
    IF S = {} THEN <<>>
    ELSE LET m == CHOOSE x \in S : \A y \in S \ {x} : NameLess(x, y)
         IN <<m>> \o sorted(S \ {m})

Present(files) == {k \in PageIds : files[k].st # "absent"}
NoFiles == [k \in PageIds |-> Absent]


\* ------------------------------------------------------------- variables
VARIABLES
    doc,               \* [Paths -> Nat]: pages of each input document
    progress,          \* progress.json: [Paths -> record], NoRec: no entry
    originals,         \* <dir>/original_images/page_k.png, by stem and k
    layoutFiles,       \* <dir>/layouts/layout_k.json
    processedFiles,    \* <dir>/processed_images/page_k.png
    pc,                \* position of main: idle, step2, pools, step3
    args,              \* parsed command line of the active run
    images,            \* main: images
    layouts,           \* main: layouts
    processed_images,  \* main: processed_images
    ocrPool,           \* ocr_executor: [need, started, done]
    genPool,           \* image_executor: [need, started, done]
    runs,              \* runs of main started so far
    tampers,           \* raster files damaged from outside so far
    outcome,           \* how the last run ended
    asm,               \* the assembler call of this run: none, ok, failed
    assembled,         \* the sequence this run handed to the assembler
    wrote,             \* last stage the active run wrote to progress.json
                       \* (0: none yet, or no run is active)
    recovered,         \* the last run started with a progress record and an
                       \* undecodable raster, and no raster was damaged since
    damaged,           \* a layout or processed file was undecodable at start
    enqueued,          \* tasks this run submitted to the two pools
    repeat,            \* this run repeats the flags of the run before it,
                       \* which ran to its end
    cleanedFrom,       \* the stage stored when the last run, a clean, began
    rt,                \* process_page_with_retry, stepped (SpecRetry)
    mg,                \* merge_text_blocks, stepped (SpecMerge)
    procs,             \* save_progress / delete_progress of each process,
                       \* stepped (SpecProgress, SpecRace)
    call               \* a call of extract_text_layout, save_images_to_pdf
                       \* or create_ppt_from_pages, stepped (SpecLayout,
                       \* SpecPdf, SpecPpt)

storeVars == <<doc, progress, originals, layoutFiles, processedFiles>>
mainVars == <<pc, args, images, layouts, processed_images, ocrPool, genPool>>
histVars == <<runs, tampers, outcome, asm, assembled, wrote, recovered,
              damaged, enqueued, repeat, cleanedFrom>>
pipeVars == <<storeVars, mainVars, histVars>>
callVars == <<procs, call>>
vars == <<storeVars, mainVars, histVars, rt, mg, callVars>>

\* ------------------------------------------------------------ arguments
NoArgs == [input |-> P1, clean |-> FALSE, skip_ocr |-> FALSE,
           skip_image_gen |-> FALSE, fmt |-> "none"]
CleanArgs(p) == [input |-> p, clean |-> TRUE, skip_ocr |-> FALSE,
                 skip_image_gen |-> FALSE, fmt |-> "pptx"]
\* --skip-ocr, --skip-image-gen, --output-format {pdf,pptx}; with pdf the
\* OCR client is never built, so --skip-ocr is only drawn with pptx.
RunArgs(p) ==
    {[input |-> p, clean |-> FALSE, skip_ocr |-> so, skip_image_gen |-> sg,
      fmt |-> f] : so \in BOOLEAN, sg \in BOOLEAN, f \in {"pptx", "pdf"}}
    \ {a \in [input : {p}, clean : {FALSE}, skip_ocr : {TRUE},
              skip_image_gen : BOOLEAN, fmt : {"pdf"}] : TRUE}

\* main, line 266: ocr_client = OCRClient() if pptx and not skip_ocr
ocr_client(a) == a.fmt = "pptx" /\ ~a.skip_ocr

EmptyPool == [need |-> <<>>, started |-> 0, done |-> {}]

\* ------------------------------------------------------- progress.json
\* a save_progress that writes a dictionary holding its own entry only
save_progress_alone(file, input_path, stage, completed, total) ==
    [p \in Paths |->
        IF p = input_path
        THEN [stage |-> stage, completed |-> completed, total |-> total]
        ELSE NoRec]

save_progress(file, input_path, stage, completed, total) ==
    [file EXCEPT ![input_path] =
        [stage |-> stage, completed |-> completed, total |-> total]]

load_progress(file, input_path) == file[input_path]

\* delete_progress that leaves the record of the job in progress.json
delete_progress_keeps_record(file, input_path) == file

delete_progress(file, input_path) == [file EXCEPT ![input_path] = NoRec]

\* --------------------------------------------------------------- step 1
\* lines 221-222: the stored raster files, in sorted() order of their names
existing_images(files) == sorted(Present(files))

\* lines 231-242: Image.open + verify of every stored raster, in that order
LoadStored(files) ==
    LET names == existing_images(files)
    IN [i \in 1..Len(names) |-> files[names[i]]]

\* line 228: if progress and progress.get('stage') >= 1 and existing_images
CanResume(rec, files) == rec.stage >= 1 /\ existing_images(files) # <<>>

\* a stored raster fails verify(): need_reextract = True
CorruptFound(files) == \E k \in PageIds : files[k].st = "bad"

\* need_reextract without the verify() of the stored rasters
need_reextract_unverified(rec, files) == ~CanResume(rec, files)

need_reextract(rec, files) == ~CanResume(rec, files) \/ CorruptFound(files)

\* pdf_processor.extract_images_from_pdf: one raster per page, in page order
extract_images_from_pdf(p) == [k \in 1..doc[p] |-> Raster(k)]

\* lines 254-256: images[i] is saved as page_{i+1}.png
SaveAs(files, imgs) ==
    [k \in PageIds |-> IF k <= Len(imgs) THEN imgs[k] ELSE files[k]]

\* the first j values written, value j+1 truncated when the kill is mid-write
SavePartly(files, imgs, j, midwrite) ==
    [k \in PageIds |->
        IF k <= j /\ k <= Len(imgs) THEN imgs[k]
        ELSE IF k = j + 1 /\ k <= Len(imgs) /\ midwrite THEN Bad
        ELSE files[k]]

AnyBad(files) == \E k \in PageIds : files[k].st = "bad"

\* a run that gets past the argument checks and the clean handling
BeginRun(a) ==
    /\ runs' = runs + 1
    /\ args' = a
    /\ repeat' = (outcome = "done" /\ a = args)
    /\ asm' = "none"
    /\ assembled' = IF outcome = "done" /\ a = args THEN assembled ELSE <<>>
    /\ enqueued' = 0
    /\ outcome' = "running"
    /\ damaged' = (AnyBad(layoutFiles[create_temp_dirs(a.input)])
                   \/ AnyBad(processedFiles[create_temp_dirs(a.input)]))
    /\ recovered' = (load_progress(progress, a.input).stage >= 1
                     /\ AnyBad(originals[create_temp_dirs(a.input)]))
    /\ cleanedFrom' = 0

\* a run that ends in the action that starts it, or before step 3 ends
EndRun(o) ==
    /\ outcome' = o
    /\ asm' = "none"
    /\ assembled' = <<>>
    /\ enqueued' = 0
    /\ repeat' = FALSE
    /\ wrote' = 0
    /\ recovered' = FALSE
    /\ damaged' = FALSE
    /\ cleanedFrom' = IF o = "cleaned"
                      THEN load_progress(progress, args'.input).stage
                      ELSE 0

Idle == pc = "idle" /\ runs < MaxRuns

\* lines 163-169: no such input file: the run prints an error and returns,
\* before the clean handling (with or without --clean).
RunRejected(p) ==
    /\ Idle
    /\ runs' = runs + 1
    /\ args' = NoArgs
    /\ EndRun("rejected")
    /\ UNCHANGED <<storeVars, pc, images, layouts, processed_images,
                   ocrPool, genPool, tampers, rt, mg, callVars>>

\* lines 180-191: create_temp_dirs, then shutil.rmtree(input_temp_dir) and
\* delete_progress(input_path)
Clean(p) ==
    /\ Idle
    /\ runs' = runs + 1
    /\ args' = CleanArgs(p)
    /\ originals' = [originals EXCEPT ![create_temp_dirs(p)] = NoFiles]
    /\ layoutFiles' = [layoutFiles EXCEPT ![create_temp_dirs(p)] = NoFiles]
    /\ processedFiles' =
           [processedFiles EXCEPT ![create_temp_dirs(p)] = NoFiles]
    /\ progress' = delete_progress(progress, p)
    /\ EndRun("cleaned")
    /\ UNCHANGED <<doc, pc, images, layouts, processed_images,
                   ocrPool, genPool, tampers, rt, mg, callVars>>

\* lines 193-262 with need_reextract false: the stored rasters are loaded
Step1Resume(p, a) ==
    /\ Idle
    /\ ~need_reextract(load_progress(progress, p),
                       originals[create_temp_dirs(p)])
    /\ BeginRun(a)
    /\ images' = LoadStored(originals[create_temp_dirs(p)])
    /\ pc' = "step2"
    /\ wrote' = 0
    /\ UNCHANGED <<storeVars, layouts, processed_images, ocrPool, genPool,
                   tampers, rt, mg, callVars>>

\* lines 246-259: extract, save every raster, save_progress(input_path, 1)
Step1Extract(p, a) ==
    /\ Idle
    /\ need_reextract(load_progress(progress, p),
                      originals[create_temp_dirs(p)])
    /\ BeginRun(a)
    /\ images' = extract_images_from_pdf(p)
    /\ originals' = [originals EXCEPT ![create_temp_dirs(p)] =
                        SaveAs(@, extract_images_from_pdf(p))]
    /\ progress' = save_progress(progress, p, 1, doc[p], doc[p])
    /\ wrote' = 1
    /\ pc' = "step2"
    /\ UNCHANGED <<doc, layoutFiles, processedFiles, layouts,
                   processed_images, ocrPool, genPool, tampers, rt, mg, callVars>>

\* an except clause that records stage 1 before it returns
Step1Abort_writes_stage(p) ==
    /\ Idle
    /\ need_reextract(load_progress(progress, p),
                      originals[create_temp_dirs(p)])
    /\ runs' = runs + 1
    /\ args' = NoArgs
    /\ progress' = save_progress(progress, p, 1, 0, 0)
    /\ EndRun("aborted")
    /\ UNCHANGED <<doc, originals, layoutFiles, processedFiles, pc, images,
                   layouts, processed_images, ocrPool, genPool, tampers,
                   rt, mg, callVars>>

\* lines 260-262: extract_images_from_pdf raises: the error is printed and
\* main returns; nothing was written.
Step1Abort(p) ==
    /\ Idle
    /\ need_reextract(load_progress(progress, p),
                      originals[create_temp_dirs(p)])
    /\ runs' = runs + 1
    /\ args' = NoArgs
    /\ EndRun("aborted")
    /\ UNCHANGED <<storeVars, pc, images, layouts, processed_images,
                   ocrPool, genPool, tampers, rt, mg, callVars>>

\* the process is killed while lines 254-259 run: the first j rasters are
\* written, raster j+1 is truncated when the kill falls inside img.save, and
\* save_progress(1) has not run.
KillInExtract(p) ==
    /\ Idle
    /\ need_reextract(load_progress(progress, p),
                      originals[create_temp_dirs(p)])
    /\ runs' = runs + 1
    /\ args' = NoArgs
    /\ \E j \in 0..doc[p], midwrite \in BOOLEAN :
           originals' = [originals EXCEPT ![create_temp_dirs(p)] =
               SavePartly(@, extract_images_from_pdf(p), j, midwrite)]
    /\ EndRun("killed")
    /\ UNCHANGED <<doc, progress, layoutFiles, processedFiles, pc, images,
                   layouts, processed_images, ocrPool, genPool, tampers,
                   rt, mg, callVars>>

\* --------------------------------------------------------------- step 2
RECURSIVE Ascending(_)
Ascending(S) ==
    IF S = {} THEN <<>>
    ELSE LET m == CHOOSE x \in S : \A y \in S : x <= y
         IN <<m>> \o Ascending(S \ {m})

\* lines 288-304: the pages with no layout file (and an OCR client), and the
\* pages with no processed image file (and image generation not skipped)
\* the loop of lines 288-296 without the os.path.exists test of line 291
pages_need_ocr_unconditional(a, n, lf) ==
    Ascending({i \in 1..n : ocr_client(a)})

pages_need_ocr(a, n, lf) ==
    Ascending({i \in 1..n : lf[i].st = "absent" /\ ocr_client(a)})

pages_need_image_gen(a, n, pf) ==
    Ascending({i \in 1..n : pf[i].st = "absent" /\ ~a.skip_image_gen})

\* lines 273 and 291-293: the default layout, or json.load of the file
LoadLayouts(n, lf) ==
    [i \in 1..n |-> IF lf[i].st = "absent" THEN EmptyLayout ELSE lf[i]]

\* lines 274 and 300-301: None, or Image.open of the file (lazy: a truncated
\* file that still has its header opens, and fails when its pixels are read)
LoadProcessed(n, pf) == [i \in 1..n |-> pf[i]]

\* lines 264-304 and the submission of lines 360-368
Step2Prepare ==
    /\ pc = "step2"
    /\ LET d == create_temp_dirs(args.input)
           n == Len(images)
           no == pages_need_ocr(args, n, layoutFiles[d])
           ng == pages_need_image_gen(args, n, processedFiles[d])
       IN /\ \A i \in 1..n : layoutFiles[d][i].st # "bad"
          /\ Len(no) <= MaxTasks /\ Len(ng) <= MaxTasks
          /\ layouts' = LoadLayouts(n, layoutFiles[d])
          /\ processed_images' = LoadProcessed(n, processedFiles[d])
          /\ ocrPool' = [need |-> no, started |-> 0, done |-> {}]
          /\ genPool' = [need |-> ng, started |-> 0, done |-> {}]
          /\ enqueued' = Len(no) + Len(ng)
    /\ pc' = "pools"
    /\ UNCHANGED <<storeVars, args, images, runs, tampers, outcome, asm,
                   assembled, wrote, recovered, damaged, repeat, cleanedFrom,
                   rt, mg, callVars>>

ResetMain ==
    /\ pc' = "idle"
    /\ images' = <<>>
    /\ layouts' = <<>>
    /\ processed_images' = <<>>
    /\ ocrPool' = EmptyPool
    /\ genPool' = EmptyPool

\* line 293: json.load of a truncated layout file raises JSONDecodeError;
\* line 301: Image.open of a truncated image file may raise
\* UnidentifiedImageError. Neither is caught: main ends with a traceback.
Step2Die ==
    /\ pc = "step2"
    /\ LET d == create_temp_dirs(args.input)
       IN \E i \in 1..Len(images) :
              \/ layoutFiles[d][i].st = "bad"
              \/ processedFiles[d][i].st = "bad"
    /\ ResetMain
    /\ args' = NoArgs
    /\ EndRun("died")
    /\ UNCHANGED <<storeVars, runs, tampers, rt, mg, callVars>>

\* ----------------------------------------------------------- the pools
Started(pool) == {pool.need[i] : i \in 1..pool.started}
Finished(pool) == {r.index : r \in pool.done}
Running(pool) == Started(pool) \ Finished(pool)
\* a pool counted as drained once its last task has started
Drained_when_started(pool) == pool.started = Len(pool.need)

Drained(pool) == pool.started = Len(pool.need) /\ Running(pool) = {}

\* a worker thread of the pool takes the next submitted task
\* an executor that starts every submitted task at once
CanStart_unbounded(pool) == pool.started < Len(pool.need)

CanStart(pool) ==
    /\ pool.started < Len(pool.need)
    /\ Cardinality(Running(pool)) < PoolWorkers

StartOcr ==
    /\ pc = "pools"
    /\ CanStart(ocrPool)
    /\ ocrPool' = [ocrPool EXCEPT !.started = @ + 1]
    /\ UNCHANGED <<storeVars, pc, args, images, layouts, processed_images,
                   genPool, histVars, rt, mg, callVars>>

\* an image pool that starts its tasks only when the OCR pool has drained
StartGen_after_ocr ==
    /\ pc = "pools"
    /\ Drained(ocrPool)
    /\ CanStart(genPool)
    /\ genPool' = [genPool EXCEPT !.started = @ + 1]
    /\ UNCHANGED <<storeVars, pc, args, images, layouts, processed_images,
                   ocrPool, histVars, rt, mg, callVars>>

StartGen ==
    /\ pc = "pools"
    /\ CanStart(genPool)
    /\ genPool' = [genPool EXCEPT !.started = @ + 1]
    /\ UNCHANGED <<storeVars, pc, args, images, layouts, processed_images,
                   ocrPool, histVars, rt, mg, callVars>>

\* What OCR made of a page: "ocr_error" (the engine raised:
\* extract_text_layout returns zero text blocks), "blocks" (the fragments,
\* merged or not), and "io_error" (process_ocr cannot write the file).
OcrOutcomes == {"ocr_error", "blocks", "io_error"}

\* ocr_client.extract_text_layout, lines 187-284: the kind of the blocks
extract_text_layout(o) == IF o = "ocr_error" THEN "none" ELSE o

\* process_ocr returning its result under the index of the first page
process_ocr_first_slot(index, img, o) ==
    IF o = "io_error"
    THEN [index |-> 1, val |-> Absent]
    ELSE [index |-> 1, val |-> Layout(extract_text_layout(o), img)]

\* main.process_ocr, lines 307-330: (index, layout) or (index, None)
process_ocr(index, img, o) ==
    IF o = "io_error"
    THEN [index |-> index, val |-> Absent]
    ELSE [index |-> index, val |-> Layout(extract_text_layout(o), img)]

FinishOcr(i, o) ==
    /\ pc = "pools"
    /\ i \in Running(ocrPool)
    /\ LET r == process_ocr(i, images[i], o)
       IN /\ ocrPool' = [ocrPool EXCEPT !.done = @ \cup {r}]
          /\ layoutFiles' =
                 [layoutFiles EXCEPT ![create_temp_dirs(args.input)][i] =
                     IF r.val.st = "absent" THEN @ ELSE r.val]
    /\ UNCHANGED <<doc, progress, originals, processedFiles, pc, args,
                   images, layouts, processed_images, genPool, histVars,
                   rt, mg, callVars>>

\* One attempt of process_page_with_retry: the service returns no text
\* (error, non-200, empty stream), text without a URL, a URL whose
\* download fails, or a URL whose download succeeds.
AttemptOutcomes == {"no_text", "no_url", "download_failed", "ok"}

\* the attempts of one call: the same failure until the first success
RetryScenarios ==
    {[i \in 1..RegenRetries |-> IF i < k THEN f ELSE "ok"] :
        k \in {1, RegenRetries, RegenRetries + 1},
        f \in AttemptOutcomes \ {"ok"}}

\* main.process_page_with_retry, lines 38-63, from attempt `attempt` on
RECURSIVE RetryLoop(_, _, _)
RetryLoop(img, outs, attempt) ==
    IF attempt >= RegenRetries THEN Absent
    ELSE IF outs[attempt + 1] = "ok" THEN Regenerated(img)
    ELSE RetryLoop(img, outs, attempt + 1)

process_page_with_retry(img, outs) == RetryLoop(img, outs, 0)

\* main.process_image_gen, lines 333-350: (index, new_img)
process_image_gen(index, img, outs) ==
    LET new_img == process_page_with_retry(img, outs)
    IN [index |-> index,
        val |-> IF new_img.st = "absent" THEN img ELSE new_img]

FinishGen(i, outs) ==
    /\ pc = "pools"
    /\ i \in Running(genPool)
    /\ LET r == process_image_gen(i, images[i], outs)
       IN /\ genPool' = [genPool EXCEPT !.done = @ \cup {r}]
          /\ processedFiles' =
                 [processedFiles EXCEPT ![create_temp_dirs(args.input)][i] =
                     r.val]
    /\ UNCHANGED <<doc, progress, originals, layoutFiles, pc, args, images,
                   layouts, processed_images, ocrPool, histVars, rt, mg, callVars>>

\* ------------------------------------------------- join, stage 2, step 3
\* every order in which as_completed can hand over the results of a pool
Orders(S) ==
    {s \in [1..Cardinality(S) -> S] :
        \A i, j \in 1..Cardinality(S) : i # j => s[i] # s[j]}

\* lines 372-374 and 378-380: index, value = future.result(); if value:
\* array[index] = value
\* the collection without the test of line 373 / 379
Collect_unguarded(arr, r) == [arr EXCEPT ![r.index] = r.val]

Collect(arr, r) ==
    IF r.val.st = "absent" THEN arr ELSE [arr EXCEPT ![r.index] = r.val]

RECURSIVE CollectAll(_, _)
CollectAll(arr, ord) ==
    IF ord = <<>> THEN arr
    ELSE CollectAll(Collect(arr, Head(ord)), Tail(ord))

\* lines 370-390: both pools have drained; the results are collected, with
\* --skip-image-gen every page's image becomes (and is saved as) images[i],
\* and save_progress(input_path, 2) runs.
FinishStep2 ==
    /\ pc = "pools"
    /\ Drained(ocrPool) /\ Drained(genPool)
    /\ \E oo \in Orders(ocrPool.done), og \in Orders(genPool.done) :
           /\ layouts' = CollectAll(layouts, oo)
           /\ processed_images' =
                  IF args.skip_image_gen THEN images
                  ELSE CollectAll(processed_images, og)
    /\ processedFiles' =
           IF args.skip_image_gen
           THEN [processedFiles EXCEPT ![create_temp_dirs(args.input)] =
                    SaveAs(@, images)]
           ELSE processedFiles
    /\ progress' = save_progress(progress, args.input, 2,
                                 Len(images), Len(images))
    /\ wrote' = 2
    /\ pc' = "step3"
    /\ UNCHANGED <<doc, originals, layoutFiles, args, images, ocrPool,
                   genPool, runs, tampers, outcome, asm, assembled,
                   recovered, damaged, enqueued, repeat, cleanedFrom,
                   rt, mg, callVars>>

\* lines 396-399 (pptx) and 409 (pdf): what the assembler is handed
pages_data(a, imgs, lays) ==
    [i \in 1..Len(imgs) |->
        [image |-> imgs[i],
         layout |-> IF a.fmt = "pptx" THEN lays[i] ELSE Absent]]

\* the assembler reads the pixels of every image: it raises on None and on
\* an image whose file is truncated (and may fail for reasons of its own)
CanAssemble(imgs) == \A i \in 1..Len(imgs) : imgs[i].st = "ok"

\* lines 392-416: the assembler runs inside try/except, then
\* save_progress(input_path, 3) runs whatever happened.
Step3(ok) ==
    /\ pc = "step3"
    /\ ok => CanAssemble(processed_images)
    /\ asm' = IF ok THEN "ok" ELSE "failed"
    /\ assembled' = pages_data(args, processed_images, layouts)
    /\ progress' = save_progress(progress, args.input, 3,
                                 Len(images), Len(images))
    /\ wrote' = 0
    /\ outcome' = "done"
    /\ ResetMain
    /\ enqueued' = 0 /\ repeat' = FALSE /\ damaged' = FALSE
    /\ UNCHANGED <<doc, originals, layoutFiles, processedFiles, args, runs,
                   tampers, recovered, cleanedFrom, rt, mg, callVars>>

\* ------------------------------------------------------------- the kill
MarkBad(files, S) == [k \in PageIds |-> IF k \in S THEN Bad ELSE files[k]]

\* The process is killed during step 2 or step 3. A running task that was
\* inside json.dump (line 323) or new_img.save (line 348) leaves a truncated
\* file; everything in memory is lost.
Kill ==
    /\ pc \in {"step2", "pools", "step3"}
    /\ \E B \in SUBSET Running(ocrPool), G \in SUBSET Running(genPool) :
           /\ layoutFiles' =
                  [layoutFiles EXCEPT ![create_temp_dirs(args.input)] =
                      MarkBad(@, B)]
           /\ processedFiles' =
                  [processedFiles EXCEPT ![create_temp_dirs(args.input)] =
                      MarkBad(@, G)]
    /\ ResetMain
    /\ args' = NoArgs
    /\ EndRun("killed")
    /\ UNCHANGED <<doc, progress, originals, runs, tampers, rt, mg, callVars>>

\* The process is killed inside the loop of lines 383-387: the first j
\* images are saved, image j+1 is truncated when the kill falls inside save.
KillInOverwrite ==
    /\ pc = "pools"
    /\ Drained(ocrPool) /\ Drained(genPool)
    /\ args.skip_image_gen
    /\ \E j \in 0..Len(images), midwrite \in BOOLEAN :
           processedFiles' =
               [processedFiles EXCEPT ![create_temp_dirs(args.input)] =
                   SavePartly(@, images, j, midwrite)]
    /\ ResetMain
    /\ args' = NoArgs
    /\ EndRun("killed")
    /\ UNCHANGED <<doc, progress, originals, layoutFiles, runs, tampers,
                   rt, mg, callVars>>

\* Between two runs a stored raster file is damaged from outside.
Tamper(p, k) ==
    /\ pc = "idle"
    /\ tampers < MaxTamper
    /\ originals[create_temp_dirs(p)][k].st = "ok"
    /\ originals' = [originals EXCEPT ![create_temp_dirs(p)][k] = Bad]
    /\ tampers' = tampers + 1
    /\ recovered' = FALSE
    /\ UNCHANGED <<doc, progress, layoutFiles, processedFiles, mainVars,
                   runs, outcome, asm, assembled, wrote, damaged, enqueued,
                   repeat, cleanedFrom, rt, mg, callVars>>

\* ------------------------------------------------------ specification
\* the processes that can run main at the same time
ProcIds == {1, 2}

ProcIdle == [st |-> "idle"]

CallIdle == [st |-> "idle"]

\* no process is inside save_progress or delete_progress, and no call of
\* the OCR client or of an assembler is followed
CallsIdle == procs = [q \in ProcIds |-> ProcIdle] /\ call = CallIdle

RtIdle == [st |-> "idle"]
MgIdle == [st |-> "idle"]

InitMain ==
    /\ pc = "idle"
    /\ args = NoArgs
    /\ images = <<>>
    /\ layouts = <<>>
    /\ processed_images = <<>>
    /\ ocrPool = EmptyPool
    /\ genPool = EmptyPool
    /\ runs = 0
    /\ tampers = 0
    /\ outcome = "none"
    /\ asm = "none"
    /\ assembled = <<>>
    /\ wrote = 0
    /\ recovered = FALSE
    /\ damaged = FALSE
    /\ enqueued = 0
    /\ repeat = FALSE
    /\ cleanedFrom = 0

\* No job has run: no progress record and no artifact of any job.
Init ==
    /\ \E n \in 1..MaxPages : doc = [p \in Paths |-> IF p = P1 THEN n ELSE 1]
    /\ progress = [p \in Paths |-> NoRec]
    /\ originals = [s \in Stems |-> NoFiles]
    /\ layoutFiles = [s \in Stems |-> NoFiles]
    /\ processedFiles = [s \in Stems |-> NoFiles]
    /\ InitMain
    /\ rt = RtIdle
    /\ mg = MgIdle
    /\ CallsIdle

Workers ==
    \/ StartOcr
    \/ StartGen
    \/ \E i \in 1..Len(images), o \in OcrOutcomes : FinishOcr(i, o)
    \/ \E i \in 1..Len(images), outs \in RetryScenarios : FinishGen(i, outs)

\* a run of main on input p that nothing interrupts
Run(p) ==
    \/ RunRejected(p)
    \/ Clean(p)
    \/ \E a \in RunArgs(p) : Step1Resume(p, a)
    \/ \E a \in RunArgs(p) : Step1Extract(p, a)
    \/ Step1Abort(p)
    \/ Step2Prepare
    \/ FinishStep2
    \/ \E ok \in BOOLEAN : Step3(ok)
    \/ Workers

\* the process is killed, and what a later run makes of the files left
Crash(p) ==
    \/ KillInExtract(p)
    \/ Kill
    \/ KillInOverwrite
    \/ Step2Die

\* Runs of main on one input, one after the other, none interrupted.
Next == Run(P1)

Spec == Init /\ [][Next]_vars

\* Runs of main, with stored raster files damaged between runs.
NextTamper ==
    \/ Run(P1)
    \/ \E k \in 1..MaxPages : Tamper(P1, k)

SpecTamper == Init /\ [][NextTamper]_vars

\* Runs of main that can be killed at any point.
NextCrash ==
    \/ Run(P1)
    \/ Crash(P1)

SpecCrash == Init /\ [][NextCrash]_vars

\* A document of BigPages pages: either no run has touched it, or a first
\* run (pptx, OCR and image generation on) extracted every raster, wrote
\* stage 1 and was killed while its last tasks ran: every page but some of
\* the last MaxMissing has its layout, and likewise its regenerated image.
LastPages == (BigPages - MaxMissing + 1)..BigPages

StoredBut(missing, vals) ==
    [k \in PageIds |->
        IF k <= BigPages /\ k \notin missing THEN vals[k] ELSE Absent]

InitResume ==
    /\ doc = [p \in Paths |-> IF p = P1 THEN BigPages ELSE 1]
    /\ \/ /\ progress = [p \in Paths |-> NoRec]
          /\ originals = [s \in Stems |-> NoFiles]
          /\ layoutFiles = [s \in Stems |-> NoFiles]
          /\ processedFiles = [s \in Stems |-> NoFiles]
       \/ \E Mo \in SUBSET LastPages, Mg \in SUBSET LastPages :
              LET StoredRaster == [k \in PageIds |-> Raster(k)]
                  StoredLayout ==
                      [k \in PageIds |-> Layout("blocks", Raster(k))]
                  StoredImage == [k \in PageIds |-> Regenerated(Raster(k))]
              IN /\ progress = save_progress([p \in Paths |-> NoRec], P1, 1,
                                             BigPages, BigPages)
                 /\ originals = [s \in Stems |->
                        IF s = create_temp_dirs(P1)
                        THEN StoredBut({}, StoredRaster) ELSE NoFiles]
                 /\ layoutFiles = [s \in Stems |->
                        IF s = create_temp_dirs(P1)
                        THEN StoredBut(Mo, StoredLayout) ELSE NoFiles]
                 /\ processedFiles = [s \in Stems |->
                        IF s = create_temp_dirs(P1)
                        THEN StoredBut(Mg, StoredImage) ELSE NoFiles]
    /\ InitMain
    /\ rt = RtIdle
    /\ mg = MgIdle
    /\ CallsIdle

SpecResume == InitResume /\ [][Next]_vars

\* A document of BigPages pages whose first run extracted every raster, wrote
\* stage 1 and was killed in step 2: either the last MaxTasks pages have no
\* layout yet and the last page has no regenerated image, or the other way
\* round.
InitPools ==
    /\ doc = [p \in Paths |-> IF p = P1 THEN BigPages ELSE 1]
    /\ progress = save_progress([p \in Paths |-> NoRec], P1, 1,
                                BigPages, BigPages)
    /\ originals = [s \in Stems |->
           IF s = create_temp_dirs(P1)
           THEN StoredBut({}, [k \in PageIds |-> Raster(k)]) ELSE NoFiles]
    /\ \E many \in BOOLEAN :
           LET Many == (BigPages - MaxTasks + 1)..BigPages
               Few == {BigPages}
           IN /\ layoutFiles = [s \in Stems |->
                     IF s = create_temp_dirs(P1)
                     THEN StoredBut(IF many THEN Many ELSE Few,
                              [k \in PageIds |-> Layout("blocks", Raster(k))])
                     ELSE NoFiles]
              /\ processedFiles = [s \in Stems |->
                     IF s = create_temp_dirs(P1)
                     THEN StoredBut(IF many THEN Few ELSE Many,
                              [k \in PageIds |-> Regenerated(Raster(k))])
                     ELSE NoFiles]
    /\ InitMain
    /\ rt = RtIdle
    /\ mg = MgIdle
    /\ CallsIdle

\* the run of main that resumes that job, uninterrupted
NextPools ==
    \/ runs = 0 /\ \E a \in RunArgs(P1) : Step1Resume(P1, a)
    \/ Step2Prepare
    \/ Workers
    \/ FinishStep2
    \/ \E ok \in BOOLEAN : Step3(ok)

SpecPools == InitPools /\ [][NextPools]_vars

\* Runs of main on three input paths, two of which have the same file name
\* in different directories; every document has one page.
InitJobs == Init /\ doc[P1] = 1

NextJobs == \E p \in Paths : Run(p)

SpecJobs == InitJobs /\ [][NextJobs]_vars

\* ------------------------------- process_page_with_retry, step by step
\* line 42, for attempt in range(max_retries), when the loop body is entered
\* with more than max_retries attempts
range_off_by_one(attempt) == attempt <= RegenRetries

\* line 42: for attempt in range(max_retries)
range_max_retries(attempt) == attempt < RegenRetries

\* line 43: if attempt > 0 (the wait of line 45 comes before the call)
backoff_due(attempt) == attempt > 0

\* a worker calls process_page_with_retry(client, img)
RetryBegin(k) ==
    /\ rt.st = "idle"
    /\ rt' = [st |-> "loop", img |-> Raster(k), attempt |-> 0, calls |-> 0,
              sleeps |-> 0, waited |-> 0, slept |-> FALSE, hist |-> <<>>,
              result |-> Absent]
    /\ UNCHANGED <<pipeVars, mg, callVars>>

\* lines 43-45: time.sleep(2) at the top of every pass but the first
RetrySleep ==
    /\ rt.st = "loop"
    /\ range_max_retries(rt.attempt)
    /\ backoff_due(rt.attempt) /\ ~rt.slept
    /\ rt' = [rt EXCEPT !.sleeps = @ + 1, !.waited = @ + BackoffSeconds,
                        !.slept = TRUE]
    /\ UNCHANGED <<pipeVars, mg, callVars>>

\* a failed pass that starts the loop over instead of counting the attempt
NextAttempt_restart(r, o) ==
    [r EXCEPT !.st = "loop", !.attempt = 0, !.calls = 0, !.sleeps = 0,
              !.waited = 0, !.slept = FALSE, !.hist = <<>>]

\* the rest of a pass that did not return: the next pass of the loop
NextAttempt(r, o) ==
    [r EXCEPT !.st = "loop", !.attempt = @ + 1, !.slept = FALSE,
              !.hist = Append(@, o)]

\* line 48: result_text = client.process_image(img_b64), text or None
RetryCall(text) ==
    /\ rt.st = "loop"
    /\ range_max_retries(rt.attempt)
    /\ backoff_due(rt.attempt) => rt.slept
    /\ rt' = IF text THEN [rt EXCEPT !.st = "text", !.calls = @ + 1]
             ELSE NextAttempt([rt EXCEPT !.calls = @ + 1], "no_text")
    /\ UNCHANGED <<pipeVars, mg, callVars>>

\* lines 54-55 and 60-61: url = extract_url_from_text(result_text)
RetryExtractUrl(found) ==
    /\ rt.st = "text"
    /\ rt' = IF found THEN [rt EXCEPT !.st = "url"]
             ELSE NextAttempt(rt, "no_url")
    /\ UNCHANGED <<pipeVars, mg, callVars>>

\* lines 57-59: new_img = download_image_from_url(url); if new_img: return
RetryDownload(ok) ==
    /\ rt.st = "url"
    /\ rt' = IF ok
             THEN [rt EXCEPT !.st = "done", !.hist = Append(@, "ok"),
                             !.result = Regenerated(rt.img)]
             ELSE NextAttempt(rt, "download_failed")
    /\ UNCHANGED <<pipeVars, mg, callVars>>

\* line 63: return None, once the loop has run out
RetryExhausted ==
    /\ rt.st = "loop"
    /\ ~range_max_retries(rt.attempt)
    /\ rt' = [rt EXCEPT !.st = "done", !.result = Absent]
    /\ UNCHANGED <<pipeVars, mg, callVars>>

\* the caller has the result; the worker is free for the next page
RetryReturn ==
    /\ rt.st = "done"
    /\ rt' = RtIdle
    /\ UNCHANGED <<pipeVars, mg, callVars>>

NextRetry ==
    \/ \E k \in 1..doc[P1] : RetryBegin(k)
    \/ RetrySleep
    \/ \E text \in BOOLEAN : RetryCall(text)
    \/ \E found \in BOOLEAN : RetryExtractUrl(found)
    \/ \E ok \in BOOLEAN : RetryDownload(ok)
    \/ RetryExhausted
    \/ RetryReturn

\* calls of process_page_with_retry, one after the other
SpecRetry == Init /\ [][NextRetry]_vars

\* ----------------------------------- merge_text_blocks, step by step
\* A reply of the merge service, as the pieces the parsing code tells apart:
\* brackets and braces, "n" (a number, true, false or null), "s" (a string),
\* "c" (a string with a raw control character in it: JSON only when
\* strict=False), "x" (any other text), "F" (a ``` fence) and "J" (a ```json
\* fence, which also contains ```).
Tokens == {"[", "]", "{", "}", "n", "s", "c", "x", "F", "J"}

Replies == UNION {[1..n -> Tokens] : n \in 0..MaxReplyLen}

\* the raw fragment lists extract_text_layout passes in
FragmentLists == {[i \in 1..n |-> i] : n \in 0..MaxBlocks}

FirstOf(c, S) ==
    IF \E i \in 1..Len(c) : c[i] \in S
    THEN CHOOSE i \in 1..Len(c) : c[i] \in S /\ \A j \in 1..(i - 1) : c[j] \notin S
    ELSE Len(c) + 1

\* str.split(sep)[1].split("```")[0]: the text between the first sep and
\* the next fence (or the end)
Between(c, sep) ==
    LET rest == SubSeq(c, FirstOf(c, sep) + 1, Len(c))
    IN SubSeq(rest, 1, FirstOf(rest, {"F", "J"}) - 1)

\* ocr_client.py lines 110-113: the content of the first fenced block
strip_fences(c) ==
    IF \E i \in 1..Len(c) : c[i] = "J" THEN Between(c, {"J"})
    ELSE IF \E i \in 1..Len(c) : c[i] = "F" THEN Between(c, {"F"})
    ELSE c

\* json.loads accepts exactly one value: toks from position i on closes
\* every container on the stack and ends with the end of that value
RECURSIVE JsonFrom(_, _, _, _)
JsonFrom(toks, i, stack, lenient) ==
    IF i > Len(toks) THEN FALSE
    ELSE LET t == toks[i]
             done(st) == IF st = <<>> THEN i = Len(toks)
                         ELSE JsonFrom(toks, i + 1, st, lenient)
         IN CASE t \in {"n", "s"} -> done(stack)
              [] t = "c" -> lenient /\ done(stack)
              [] t \in {"[", "{"} -> JsonFrom(toks, i + 1, <<t>> \o stack, lenient)
              [] t = "]" -> stack # <<>> /\ Head(stack) = "[" /\ done(Tail(stack))
              [] t = "}" -> stack # <<>> /\ Head(stack) = "{" /\ done(Tail(stack))
              [] OTHER -> FALSE

\* the number of values directly inside the outermost container
RECURSIVE TopLen(_, _, _)
TopLen(toks, i, depth) ==
    IF i >= Len(toks) THEN 0
    ELSE LET t == toks[i]
         IN IF t \in {"[", "{"}
            THEN (IF depth = 0 THEN 1 ELSE 0) + TopLen(toks, i + 1, depth + 1)
            ELSE IF t \in {"]", "}"} THEN TopLen(toks, i + 1, depth - 1)
            ELSE (IF depth = 0 THEN 1 ELSE 0) + TopLen(toks, i + 1, depth)

JSONDecodeError == [ok |-> FALSE, type |-> "-", len |-> 0]

\* json.loads(content, strict=...): the value, or JSONDecodeError
json_loads(toks, lenient) ==
    IF ~JsonFrom(toks, 1, <<>>, lenient) THEN JSONDecodeError
    ELSE [ok |-> TRUE,
          type |-> CASE toks[1] = "[" -> "list"
                     [] toks[1] = "{" -> "dict"
                     [] toks[1] = "n" -> "number"
                     [] OTHER -> "str",
          len |-> IF toks[1] \in {"[", "{"} THEN TopLen(toks, 2, 0) ELSE 1]

Count(c, t) == Cardinality({i \in 1..Len(c) : c[i] = t})

Times(t, n) == [i \in 1..(IF n > 0 THEN n ELSE 0) |-> t]

\* lines 127-138: the brackets and braces the reply leaves open are
\* appended, braces first
close_open_structures(c) ==
    c \o Times("}", Count(c, "{") - Count(c, "}"))
      \o Times("]", Count(c, "[") - Count(c, "]"))

\* lines 110-142: strip the fences, then json.loads strict, non-strict, and
\* non-strict on the repaired text
parse_reply(reply) ==
    LET content == strip_fences(reply)
        strict == json_loads(content, FALSE)
        lenient == json_loads(content, TRUE)
    IN IF strict.ok THEN strict
       ELSE IF lenient.ok THEN lenient
       ELSE json_loads(close_open_structures(content), TRUE)

RawBlocks(text_blocks) == [kind |-> "raw", blocks |-> text_blocks]
MergedBlocks(v) == [kind |-> "merged", type |-> v.type, len |-> v.len]

\* a last line that returns an empty list
merge_fallback_empty(text_blocks) == RawBlocks(<<>>)

\* lines 159-161: return text_blocks, when every attempt failed
merge_fallback(text_blocks) == RawBlocks(text_blocks)

\* line 49: if not self.openai_client or not text_blocks: return text_blocks
MergeBegin(text_blocks, client) ==
    /\ mg.st = "idle"
    /\ mg' = [st |-> IF client /\ text_blocks # <<>> THEN "call" ELSE "done",
              text_blocks |-> text_blocks, client |-> client, attempt |-> 0,
              calls |-> 0, sleeps |-> 0, content |-> <<>>,
              decode_errors |-> 0, repairs |-> 0, type_errors |-> 0,
              result |-> RawBlocks(text_blocks)]
    /\ UNCHANGED <<pipeVars, rt, callVars>>

\* a loop that makes one pass more than max_retries
AfterError_one_more(m) ==
    [m EXCEPT !.sleeps = @ + 1,
              !.attempt = @ + 1,
              !.content = <<>>,
              !.st = IF m.attempt + 1 <= MergeRetries THEN "call"
                     ELSE "fallback"]

\* lines 147-157: either except clause: time.sleep(1) unless this was the
\* last attempt, then the next pass of the loop, or the end of the loop
AfterError(m) ==
    [m EXCEPT !.sleeps = IF m.attempt < MergeRetries - 1 THEN @ + 1 ELSE @,
              !.attempt = @ + 1,
              !.content = <<>>,
              !.st = IF m.attempt + 1 < MergeRetries THEN "call"
                     ELSE "fallback"]

\* lines 93-106: the service answers with text, one of the replies in R
MergeReplyFrom(R) ==
    /\ mg.st = "call"
    /\ \E reply \in R :
           mg' = [mg EXCEPT !.st = "reply", !.calls = @ + 1,
                            !.content = reply]
    /\ UNCHANGED <<pipeVars, rt, callVars>>

MergeReply == MergeReplyFrom(Replies)

\* lines 93-110 raise (no connection, no choices, content None): line 153
MergeCallRaises ==
    /\ mg.st = "call"
    /\ mg' = AfterError([mg EXCEPT !.calls = @ + 1, !.content = <<>>])
    /\ UNCHANGED <<pipeVars, rt, callVars>>

\* lines 110-145: parse the reply; len(merged_blocks) raises TypeError for
\* a number, true, false or null; otherwise the parsed value is returned
MergeParse ==
    /\ mg.st = "reply"
    /\ LET v == parse_reply(mg.content)
           content == strip_fences(mg.content)
           repaired == close_open_structures(content) # content
       IN mg' = IF ~v.ok
                THEN AfterError([mg EXCEPT
                         !.decode_errors = @ + 1,
                         !.repairs = IF repaired THEN @ + 1 ELSE @])
                ELSE IF v.type = "number"
                THEN AfterError([mg EXCEPT !.type_errors = @ + 1])
                ELSE [mg EXCEPT !.st = "done", !.result = MergedBlocks(v)]
    /\ UNCHANGED <<pipeVars, rt, callVars>>

MergeFallback ==
    /\ mg.st = "fallback"
    /\ mg' = [mg EXCEPT !.st = "done",
                        !.result = merge_fallback(mg.text_blocks)]
    /\ UNCHANGED <<pipeVars, rt, callVars>>

\* extract_text_layout has the blocks; the client is free for the next page
MergeReturn ==
    /\ mg.st = "done"
    /\ mg' = MgIdle
    /\ UNCHANGED <<pipeVars, rt, callVars>>

NextMerge ==
    \/ \E tb \in FragmentLists, client \in BOOLEAN : MergeBegin(tb, client)
    \/ MergeReply
    \/ MergeCallRaises
    \/ MergeParse
    \/ MergeFallback
    \/ MergeReturn

\* calls of merge_text_blocks, one after the other
InitMerge == Init /\ doc[P1] = 1

SpecMerge == InitMerge /\ [][NextMerge]_vars

\* ------------------- save_progress and delete_progress, step by step
\* Both functions read the whole of progress.json (lines 89-93, 121-123),
\* change their own entry in memory (96-103, 125-126) and write the whole
\* dictionary back (106-107, 129-130). A missing file reads as no entry.
\* save_progress(input_path, stage, completed, total), lines 89-93: the
\* file is read
SaveProgressRead(q, input_path, stage) ==
    /\ procs[q].st = "idle"
    /\ procs' = [procs EXCEPT ![q] =
                    [st |-> "loaded", op |-> "save", input |-> input_path,
                     stage |-> stage, progress |-> progress]]
    /\ UNCHANGED <<pipeVars, rt, mg, call>>

\* delete_progress(input_path), lines 121-123: the file is read
DeleteProgressRead(q, input_path) ==
    /\ procs[q].st = "idle"
    /\ procs' = [procs EXCEPT ![q] =
                    [st |-> "loaded", op |-> "delete", input |-> input_path,
                     stage |-> 0, progress |-> progress]]
    /\ UNCHANGED <<pipeVars, rt, mg, call>>

\* the dictionary a process writes back: what it read, with its own entry
\* set or removed
Updated(c) ==
    IF c.op = "save"
    THEN save_progress(c.progress, c.input, c.stage,
                       doc[c.input], doc[c.input])
    ELSE delete_progress(c.progress, c.input)

\* a write that takes the file as it is now (as under a lock held from the
\* read on) instead of the dictionary read earlier
ProgressWrite_fresh(q) ==
    /\ procs[q].st = "loaded"
    /\ progress' = Updated([procs[q] EXCEPT !.progress = progress])
    /\ procs' = [procs EXCEPT ![q].st = "done"]
    /\ UNCHANGED <<doc, originals, layoutFiles, processedFiles, mainVars,
                   histVars, rt, mg, call>>

\* lines 106-107 and 129-130: json.dump of the dictionary of this process
ProgressWrite(q) ==
    /\ procs[q].st = "loaded"
    /\ progress' = Updated(procs[q])
    /\ procs' = [procs EXCEPT ![q].st = "done"]
    /\ UNCHANGED <<doc, originals, layoutFiles, processedFiles, mainVars,
                   histVars, rt, mg, call>>

\* the function returns
ProgressReturn(q) ==
    /\ procs[q].st = "done"
    /\ procs' = [procs EXCEPT ![q] = ProcIdle]
    /\ UNCHANGED <<pipeVars, rt, mg, call>>

\* the input of the run of each process in SpecRace: two different jobs
InputOf(q) == IF q = 1 THEN P1 ELSE P3

\* one process, calling save_progress and delete_progress for any job
NextProgress ==
    \/ \E p \in Paths, stage \in 1..3 : SaveProgressRead(1, p, stage)
    \/ \E p \in Paths : DeleteProgressRead(1, p)
    \/ ProgressWrite(1)
    \/ ProgressReturn(1)

SpecProgress == Init /\ [][NextProgress]_vars

\* two processes, each calling the two functions for its own input
NextRace ==
    \/ \E q \in ProcIds, stage \in 1..3 :
           SaveProgressRead(q, InputOf(q), stage)
    \/ \E q \in ProcIds : DeleteProgressRead(q, InputOf(q))
    \/ \E q \in ProcIds : ProgressWrite(q)
    \/ \E q \in ProcIds : ProgressReturn(q)

SpecRace == Init /\ [][NextRace]_vars

\* ------------------------------------------------------- termination
\* Three views of one process: runs of main in which the loop inside a page
\* task is one step (FinishOcr, FinishGen), a call of
\* process_page_with_retry pass by pass, and a call of merge_text_blocks
\* attempt by attempt. One view is followed at a time: a run starts only
\* between calls, and a call is followed only before the first run.
\* The replies followed in the merge view are the one-token ones: one for
\* every way lines 110-145 can end (a list, an object, a string, a number,
\* JSONDecodeError before and after the repair).
ShortReplies == {r \in Replies : Len(r) <= 1}

CallsQuiet == rt.st = "idle" /\ mg.st = "idle"
MainQuiet == pc = "idle" /\ runs = 0

NextLive ==
    \/ CallsQuiet /\ RunRejected(P1)
    \/ CallsQuiet /\ Clean(P1)
    \/ CallsQuiet /\ \E a \in RunArgs(P1) : Step1Resume(P1, a)
    \/ CallsQuiet /\ \E a \in RunArgs(P1) : Step1Extract(P1, a)
    \/ CallsQuiet /\ Step1Abort(P1)
    \/ Step2Prepare
    \/ Workers
    \/ FinishStep2
    \/ \E ok \in BOOLEAN : Step3(ok)
    \/ MainQuiet /\ mg.st = "idle" /\ \E k \in 1..doc[P1] : RetryBegin(k)
    \/ RetrySleep
    \/ \E text \in BOOLEAN : RetryCall(text)
    \/ \E found \in BOOLEAN : RetryExtractUrl(found)
    \/ \E ok \in BOOLEAN : RetryDownload(ok)
    \/ RetryExhausted
    \/ RetryReturn
    \/ MainQuiet /\ rt.st = "idle"
           /\ \E tb \in FragmentLists, client \in BOOLEAN :
                  MergeBegin(tb, client)
    \/ MergeReplyFrom(ShortReplies)
    \/ MergeCallRaises
    \/ MergeParse
    \/ MergeFallback
    \/ MergeReturn

\* a step of a run that has started: main goes on, the executors hand
\* every submitted task to a worker thread, and every task's service call
\* returns or raises
MainStep ==
    \/ Step2Prepare
    \/ FinishStep2
    \/ \E ok \in BOOLEAN : Step3(ok)

\* a step inside a call of process_page_with_retry
RetryStep ==
    \/ RetrySleep
    \/ RetryReturn
    \/ \E text \in BOOLEAN : RetryCall(text)
    \/ \E found \in BOOLEAN : RetryExtractUrl(found)
    \/ \E ok \in BOOLEAN : RetryDownload(ok)
    \/ RetryExhausted

\* a step inside a call of merge_text_blocks
MergeStep ==
    \/ MergeReplyFrom(ShortReplies)
    \/ MergeCallRaises
    \/ MergeParse
    \/ MergeFallback
    \/ MergeReturn

\* every external call returns or raises in finite time, sleeps end, and
\* the threads of the process are scheduled fairly
Fairness ==
    /\ WF_vars(MainStep)
    /\ WF_vars(StartOcr)
    /\ WF_vars(StartGen)
    /\ \A i \in 1..MaxPages : WF_vars(\E o \in OcrOutcomes : FinishOcr(i, o))
    /\ \A i \in 1..MaxPages :
           WF_vars(\E outs \in RetryScenarios : FinishGen(i, outs))
    /\ WF_vars(RetryStep)
    /\ WF_vars(MergeStep)

SpecLive == Init /\ [][NextLive]_vars /\ Fairness

\* ------------------------------ extract_text_layout, block by block
\* what the OCR engine (or the merge service) can report for a box: values
\* inside the image, one step outside it, and negative ones
Coords == -1..(MaxDim + 1)

Min(a, b) == IF a <= b THEN a ELSE b
Max(a, b) == IF a >= b THEN a ELSE b

\* ocr_client.py lines 226-235: x = max(0, x); y = max(0, y);
\* w = min(width - x, w); h = min(height - y, h)
clamp(left, top, w, h, width, height) ==
    LET x == Max(0, left)
        y == Max(0, top)
    IN [x |-> x, y |-> y,
        width |-> Min(width - x, w), height |-> Min(height - y, h)]

\* lines 187-214: an image of width x height pixels goes through the engine
LayoutBegin(width, height) ==
    /\ call.st = "idle"
    /\ call' = [st |-> "ocr", width |-> width, height |-> height]
    /\ UNCHANGED <<pipeVars, rt, mg, procs>>

\* lines 216-262: a fragment that is kept (text, confidence >= 60) becomes a
\* text block with the clamped box
LayoutFragment(left, top, w, h) ==
    /\ call.st = "ocr"
    /\ call' = [st |-> "raw", width |-> call.width, height |-> call.height,
                bbox |-> clamp(left, top, w, h, call.width, call.height)]
    /\ UNCHANGED <<pipeVars, rt, mg, procs>>

\* lines 267-275: text_blocks becomes what merge_text_blocks returns: the
\* raw blocks, or the blocks of the service's reply, whose boxes are the
\* service's
LayoutMerge(merged, bbox) ==
    /\ call.st = "raw"
    /\ call' = [call EXCEPT !.st = "layout",
                            !.bbox = IF merged THEN bbox ELSE @]
    /\ UNCHANGED <<pipeVars, rt, mg, procs>>

\* the layout is returned to process_ocr
CallReturn ==
    /\ call.st \in {"layout", "saved", "built"}
    /\ call' = CallIdle
    /\ UNCHANGED <<pipeVars, rt, mg, procs>>

NextLayout ==
    \/ \E width, height \in 1..MaxDim : LayoutBegin(width, height)
    \/ \E left, top, w, h \in Coords : LayoutFragment(left, top, w, h)
    \/ \E bbox \in [x : Coords, y : Coords, width : Coords, height : Coords] :
           LayoutMerge(TRUE, bbox)
    \/ LayoutMerge(FALSE, call.bbox)
    \/ CallReturn

SpecLayout == InitMerge /\ [][NextLayout]_vars

\* ------------------------------------ save_images_to_pdf, image by image
Modes == {"RGB", "RGBA"}

\* the processed images of a run: page i of the sequence, in some mode
ImageLists ==
    UNION {{[i \in 1..n |-> [page |-> i, mode |-> m[i]]] : m \in [1..n -> Modes]} :
               n \in 0..MaxImages}

\* img.convert('RGB')
convert_rgb(img) == [img EXCEPT !.mode = "RGB"]

\* pdf_processor.py lines 32-36: an empty list is reported and nothing is
\* written; otherwise the loop of lines 39-44 starts
PdfBegin(imgs) ==
    /\ call.st = "idle"
    /\ call' = IF imgs = <<>>
               THEN [st |-> "saved", images |-> imgs, pages |-> <<>>]
               ELSE [st |-> "convert", images |-> imgs, done |-> 0,
                     rgb_images |-> <<>>]
    /\ UNCHANGED <<pipeVars, rt, mg, procs>>

\* lines 40-44, one pass: an RGBA image is converted and the result is
\* bound to img only; any other image is appended to rgb_images
PdfConvert ==
    /\ call.st = "convert"
    /\ call.done < Len(call.images)
    /\ LET img == call.images[call.done + 1]
       IN call' = [call EXCEPT
                      !.done = @ + 1,
                      !.rgb_images = IF img.mode = "RGBA" THEN @
                                     ELSE Append(@, img)]
    /\ UNCHANGED <<pipeVars, rt, mg, procs>>

\* lines 46-55: rgb_images is saved as the PDF when it is not empty,
\* otherwise every image of the list, converted
PdfSave ==
    /\ call.st = "convert"
    /\ call.done = Len(call.images)
    /\ call' = [st |-> "saved", images |-> call.images,
                pages |-> IF call.rgb_images # <<>> THEN call.rgb_images
                          ELSE [i \in 1..Len(call.images) |->
                                   convert_rgb(call.images[i])]]
    /\ UNCHANGED <<pipeVars, rt, mg, procs>>

NextPdf ==
    \/ \E imgs \in ImageLists : PdfBegin(imgs)
    \/ PdfConvert
    \/ PdfSave
    \/ CallReturn

SpecPdf == InitMerge /\ [][NextPdf]_vars

\* ------------------------------- create_ppt_from_pages, box by box
\* Inches(px / 96.0) for px = num / den pixels: pptx.util.Inches is
\* int(inches * 914400), a whole number of EMU (the float product can fall
\* one EMU short of this quotient)
Inches(num, den) == (num * EmuPerPixel) \div den

Sizes == [width : 1..MaxDim, height : 1..MaxDim]

\* what a layout records of the raster it was made from: nothing (the
\* layouts extract_text_layout returns have no original_size), or a size
RecordedSizes == {[width |-> 0, height |-> 0]} \cup Sizes

Boxes == [x : 0..MaxDim, y : 0..MaxDim, width : 0..MaxDim, height : 0..MaxDim]

\* ppt_builder.py lines 26-33 and 35-57: the slide size is that of the
\* first page's image, whatever the sizes of the later ones; every page's
\* image is stretched over the whole slide
PptBegin(size) ==
    /\ call.st = "idle"
    /\ call' = [st |-> "slide", page |-> 1, image |-> size,
                slide_width |-> Inches(size.width, 1),
                slide_height |-> Inches(size.height, 1)]
    /\ UNCHANGED <<pipeVars, rt, mg, procs>>

\* lines 35-57: the slide of the next page
PptSlide(size) ==
    /\ call.st \in {"slide", "box"}
    /\ call.page < MaxPages
    /\ call' = [st |-> "slide", page |-> call.page + 1, image |-> size,
                slide_width |-> call.slide_width,
                slide_height |-> call.slide_height]
    /\ UNCHANGED <<pipeVars, rt, mg, procs>>

\* lines 61-99: original_size defaults to the size of the page's image,
\* the bbox is scaled by current / original and converted to EMU
PptTextBox(bbox, original_size) ==
    /\ call.st = "slide"
    /\ LET original_width_px == IF original_size.width = 0
                                THEN call.image.width
                                ELSE original_size.width
           original_height_px == IF original_size.height = 0
                                 THEN call.image.height
                                 ELSE original_size.height
       IN call' = [st |-> "box", page |-> call.page, image |-> call.image,
                   slide_width |-> call.slide_width,
                   slide_height |-> call.slide_height,
                   bbox |-> bbox,
                   original |-> [width |-> original_width_px,
                                 height |-> original_height_px],
                   x |-> Inches(bbox.x * call.image.width,
                                original_width_px),
                   y |-> Inches(bbox.y * call.image.height,
                                original_height_px),
                   width |-> Inches(bbox.width * call.image.width,
                                    original_width_px),
                   height |-> Inches(bbox.height * call.image.height,
                                     original_height_px)]
    /\ UNCHANGED <<pipeVars, rt, mg, procs>>

\* lines 131-132: prs.save(output_path)
PptSave ==
    /\ call.st \in {"slide", "box"}
    /\ call' = [st |-> "built"]
    /\ UNCHANGED <<pipeVars, rt, mg, procs>>

NextPpt ==
    \/ \E size \in Sizes : PptBegin(size)
    \/ \E size \in Sizes : PptSlide(size)
    \/ \E bbox \in Boxes, original_size \in RecordedSizes :
           PptTextBox(bbox, original_size)
    \/ PptSave
    \/ CallReturn

SpecPpt == InitMerge /\ [][NextPpt]_vars

\* ================================================================ claims
\* main, line 180: input_temp_dir of the run's input
JobDir == create_temp_dirs(args.input)

\* C1 (fallback guarantee): a page whose regeneration task exhausted its
\* attempts has its own original raster as regenerated image, in the result
\* array and as persisted artifact, and when step 2 has finished no page has
\* an absent regenerated image. (FellBack: the pages whose task of this run
\* returned an original raster.)
C1_FallbackIsOwnRaster ==
    LET FellBack ==
            {r.index : r \in {x \in genPool.done : x.val.src = "orig"}}
    IN
    /\ \A r \in genPool.done :
           r.val.src = "orig" =>
               /\ r.val = Raster(r.index)
               /\ processedFiles[JobDir][r.index] = Raster(r.index)
    /\ pc = "step3" =>
           \A i \in 1..Len(processed_images) :
               /\ processed_images[i].st # "absent"
               /\ i \in FellBack => processed_images[i] = Raster(i)

\* C2 (ordering invariant): entry k of the sequence handed to the assembler
\* is the regenerated image of page k and the layout of page k, k = 1..N in
\* raster extraction order, whatever the completion order of the tasks.
C2_AssembledInPageOrder ==
    outcome = "done" =>
        /\ Len(assembled) = doc[args.input]
        /\ \A k \in 1..Len(assembled) :
               /\ assembled[k].image.of = k
               /\ assembled[k].layout.of \in {0, k}

\* C3 (idempotent resume): a run that repeats the flags of the completed run
\* before it, with no clean in between, enqueues no task and hands the
\* assembler the sequence the first run handed over.
C3_SecondRunRepeatsFirst ==
    [][(pc = "step3" /\ pc' = "idle" /\ repeat)
          => (enqueued = 0 /\ assembled' = assembled)]_vars

\* C5 (stage monotonicity): across runs of main on one job with no clean in
\* between, the stage stored in the job's progress record never decreases
\* from one write to the next.
C5_StageNeverDecreases ==
    [][outcome' = "cleaned"
          \/ \A p \in Paths : progress'[p].stage >= progress[p].stage]_vars

\* C6 (assembly failure): stage 3 is written only when the assembler
\* succeeded; when the assembler raised, the stored stage stays at 2.
C6_FailedAssemblyStaysAtStage2 ==
    asm = "failed" => load_progress(progress, args.input).stage = 2

\* C7 (corruption recovery): a run that starts with a progress record of
\* stage >= 1 and an undecodable stored raster works on the rasters derived
\* anew from the input document, has stored all N of them again, and ends
\* with the assembler called and stage 3 stored.
C7_CorruptRastersRederived ==
    recovered =>
        /\ \A k \in 1..doc[args.input] : originals[JobDir][k] = Raster(k)
        /\ pc # "idle" =>
               /\ images = extract_images_from_pdf(args.input)
               /\ load_progress(progress, args.input).stage = wrote
               /\ wrote >= 1
        /\ pc = "idle" =>
               /\ outcome = "done"
               /\ load_progress(progress, args.input).stage = 3

\* a run on a document of two pages or more found a damaged raster, derived
\* the rasters anew and ran to its end
C7_Witness ==
    /\ recovered
    /\ pc = "idle"
    /\ doc[args.input] >= 2
    /\ load_progress(progress, args.input).stage = 3

C9_NoRunFailsOnStoredArtifact ==
    /\ outcome # "died"
    /\ pc # "idle" =>
           /\ ~AnyBad(layoutFiles[JobDir])
           /\ ~AnyBad(processedFiles[JobDir])

\* C10 (regeneration retry budget): process_page_with_retry calls the image
\* service at most max_retries times, waits the backoff before every call
\* but the first, returns the downloaded image at the first attempt that
\* succeeded (no call after it), and returns None only when max_retries
\* attempts were made and all failed. (Padded: the outcomes of the attempts
\* made, with the attempts that were not made filled in as successes.)
C10_RetryBudget ==
    LET Padded(hist) ==
            [i \in 1..RegenRetries |->
                IF i <= Len(hist) THEN hist[i] ELSE "ok"]
    IN
    rt.st # "idle" =>
        /\ rt.calls <= RegenRetries
        /\ rt.st \in {"text", "url"} =>
               /\ rt.calls = rt.attempt + 1
               /\ rt.sleeps = rt.calls - 1
               /\ rt.waited = BackoffSeconds * (rt.calls - 1)
        /\ \A i \in 1..Len(rt.hist) : rt.hist[i] = "ok" => i = Len(rt.hist)
        /\ rt.st = "done" =>
               /\ rt.calls = Len(rt.hist)
               /\ rt.sleeps = rt.calls - 1
               /\ rt.result = process_page_with_retry(rt.img, Padded(rt.hist))
               /\ rt.result # Absent =>
                      /\ rt.result = Regenerated(rt.img)
                      /\ rt.hist[Len(rt.hist)] = "ok"
               /\ rt.result = Absent =>
                      /\ rt.calls = RegenRetries
                      /\ \A i \in 1..Len(rt.hist) : rt.hist[i] # "ok"

\* the last of the max_retries attempts succeeded, after a failure of every
\* kind
C10_Witness ==
    /\ rt.st = "done"
    /\ rt.result # Absent
    /\ rt.calls = RegenRetries
    /\ {rt.hist[i] : i \in 1..Len(rt.hist)} = AttemptOutcomes

\* C4 (merge fallback): with a merge service configured and a non-empty raw
\* fragment list, when the reply of every one of the merge attempts could
\* not be parsed (json.loads raised on it, also after the repair), the
\* service was called max_retries times and merge_text_blocks returns the
\* raw fragment list itself.
C4_UnparseableRepliesKeepRawBlocks ==
    (/\ mg.st = "done"
     /\ mg.client /\ mg.text_blocks # <<>>
     /\ mg.decode_errors = mg.calls)
        => /\ mg.calls = MergeRetries
           /\ mg.result = RawBlocks(mg.text_blocks)
           /\ mg.result.blocks # <<>>

\* three replies that could not be parsed, one of them also not after the
\* repair had closed what it left open
C4_Witness ==
    /\ mg.st = "done"
    /\ mg.client /\ mg.text_blocks # <<>>
    /\ mg.decode_errors = MergeRetries
    /\ mg.repairs >= 1
    /\ mg.result = RawBlocks(mg.text_blocks)

\* C11 (image generation disabled): with --skip-image-gen no regeneration
\* task is submitted, and when step 2 has finished the regenerated image of
\* every page k, in memory and as stored file, is the original raster of
\* page k.
C11_SkippedGenerationKeepsRasters ==
    (pc \in {"pools", "step3"} /\ args.skip_image_gen) =>
        /\ genPool.need = <<>>
        /\ pc = "step3" =>
               \A k \in 1..Len(images) :
                   /\ processed_images[k] = Raster(k)
                   /\ processedFiles[JobDir][k] = Raster(k)

\* C12 (per-page OCR degradation): a page whose layout task failed (the
\* engine raised inside extract_text_layout, or process_ocr raised) has a
\* layout with zero text blocks when step 2 has finished; the run did not
\* end there, and every other submitted layout task has run.
C12_FailedOcrGivesEmptyLayout ==
    pc = "step3" =>
        /\ outcome = "running"
        /\ Finished(ocrPool) = {ocrPool.need[i] : i \in 1..Len(ocrPool.need)}
        /\ \A r \in ocrPool.done :
               /\ (r.val.st = "absent" \/ r.val.src = "none") =>
                      /\ layouts[r.index].st = "ok"
                      /\ layouts[r.index].src = "none"
               /\ r.val.src = "blocks" => layouts[r.index] = r.val

\* step 2 has finished on two pages: process_ocr raised on one of them and
\* the other has its text blocks
C12_Witness ==
    /\ pc = "step3"
    /\ \E r \in ocrPool.done : r.val.st = "absent"
    /\ \E r \in ocrPool.done : r.val.src = "blocks"

\* C13 (artifact isolation between jobs): a step of a run on one input path
\* (a clean included) leaves the raster, layout and regenerated-image files
\* of every job that was started on another input path as they were; what a
\* run loads are the files of its own job.
C13_JobsKeepTheirArtifacts ==
    [][\A q \in Paths \ {args'.input} :
           load_progress(progress, q) # NoRec =>
               /\ originals'[create_temp_dirs(q)]
                      = originals[create_temp_dirs(q)]
               /\ layoutFiles'[create_temp_dirs(q)]
                      = layoutFiles[create_temp_dirs(q)]
               /\ processedFiles'[create_temp_dirs(q)]
                      = processedFiles[create_temp_dirs(q)]]_vars

\* C14 (presence-based scheduling): when step 2 submits its tasks, page i is
\* in the layout pool exactly when it has no layout file and there is an
\* OCR client, and in the regeneration pool exactly when it has no processed
\* image file and image generation is not skipped; no page is submitted
\* twice to a pool, and while the pools run no file that exists is written
\* again by a task.
C14_PresenceBasedScheduling ==
    [][LET d == JobDir
           n == Len(images)
           Once(need) == \A i, j \in 1..Len(need) :
                             need[i] = need[j] => i = j
           Pages(need) == {need[i] : i \in 1..Len(need)}
       IN /\ (pc = "step2" /\ pc' = "pools") =>
                 /\ Once(ocrPool'.need) /\ Once(genPool'.need)
                 /\ \A i \in 1..n :
                        /\ i \in Pages(ocrPool'.need)
                               <=> (layoutFiles[d][i].st = "absent"
                                    /\ ocr_client(args))
                        /\ i \in Pages(genPool'.need)
                               <=> (processedFiles[d][i].st = "absent"
                                    /\ ~args.skip_image_gen)
          /\ (pc = "pools" /\ pc' = "pools") =>
                 \A i \in 1..n :
                     /\ layoutFiles[d][i].st # "absent"
                            => layoutFiles'[d][i] = layoutFiles[d][i]
                     /\ processedFiles[d][i].st # "absent"
                            => processedFiles'[d][i] = processedFiles[d][i]
      ]_vars

\* a run after a killed run, with OCR and image generation on: some pages
\* have their layout and some do not, likewise their processed image, and a
\* task that was submitted has written its file
C14_Witness ==
    /\ pc = "pools"
    /\ ocr_client(args) /\ ~args.skip_image_gen
    /\ Len(ocrPool.need) \in 1..(Len(images) - 1)
    /\ Len(genPool.need) \in 1..(Len(images) - 1)
    /\ \E r \in genPool.done : processedFiles[JobDir][r.index] = r.val

\* C15 (pool bound): at every moment of step 2 at most max_workers = 3
\* layout tasks are running and at most 3 regeneration tasks are running,
\* however many pages were submitted.
C15_PoolBound ==
    /\ Cardinality(Running(ocrPool)) <= PoolWorkers
    /\ Cardinality(Running(genPool)) <= PoolWorkers

\* more than three layout tasks were submitted: three are running and one
\* waits for a free worker
C15_Witness ==
    /\ pc = "pools"
    /\ Len(ocrPool.need) > PoolWorkers
    /\ Cardinality(Running(ocrPool)) = PoolWorkers
    /\ ocrPool.started < Len(ocrPool.need)

\* C16 (pool independence): the two pools run side by side: whenever a
\* regeneration task is queued and the image pool has a free worker, the
\* task can start, whatever the layout pool is doing (full, running or
\* queued), and the same holds for a queued layout task and the image pool.
C16_PoolsIndependent ==
    pc = "pools" =>
        /\ (/\ genPool.started < Len(genPool.need)
            /\ Cardinality(Running(genPool)) < PoolWorkers)
               => ENABLED StartGen
        /\ (/\ ocrPool.started < Len(ocrPool.need)
            /\ Cardinality(Running(ocrPool)) < PoolWorkers)
               => ENABLED StartOcr

\* a regeneration task has started and finished while the layout pool is
\* full and a further layout task is queued
C16_Witness ==
    /\ pc = "pools"
    /\ genPool.done # {}
    /\ Cardinality(Running(ocrPool)) = PoolWorkers
    /\ ocrPool.started < Len(ocrPool.need)
    /\ ocrPool.done = {}

\* C17 (disjoint writes): in step 2 a step of a task writes at most one
\* artifact file, the layout file or the processed image file of its own
\* page and never a raster; no page is submitted twice to a pool, so no two
\* tasks have a file in common; and when the results are collected, slot i
\* of a result array is written only with the result of the task of page i.
C17_DisjointWrites ==
    [][pc = "pools" =>
        LET d == JobDir
            Once(need) == \A i, j \in 1..Len(need) :
                              need[i] = need[j] => i = j
            changedL == {k \in PageIds :
                            layoutFiles'[d][k] # layoutFiles[d][k]}
            changedP == {k \in PageIds :
                            processedFiles'[d][k] # processedFiles[d][k]}
        IN /\ Once(ocrPool.need) /\ Once(genPool.need)
           /\ \A r1, r2 \in ocrPool'.done : r1.index = r2.index => r1 = r2
           /\ \A r1, r2 \in genPool'.done : r1.index = r2.index => r1 = r2
           /\ pc' = "pools" =>
                  /\ originals' = originals
                  /\ Cardinality(changedL \cup changedP) <= 1
                  /\ changedL = {} \/ changedP = {}
                  /\ changedL \subseteq
                         Running(ocrPool) \cap Finished(ocrPool')
                  /\ changedP \subseteq
                         Running(genPool) \cap Finished(genPool')
           /\ pc' = "step3" =>
                  \A i \in 1..Len(images) :
                      /\ layouts'[i] # layouts[i] =>
                             \E r \in ocrPool.done :
                                 r.index = i /\ r.val = layouts'[i]
                      /\ (processed_images'[i] # processed_images[i]
                          /\ ~args.skip_image_gen) =>
                             \E r \in genPool.done :
                                 r.index = i /\ r.val = processed_images'[i]
      ]_vars

\* the layout tasks of two pages and the regeneration task of one of them
\* have written their files
C17_Witness ==
    /\ pc = "pools"
    /\ \E r1, r2 \in ocrPool.done, g \in genPool.done :
           /\ r1.index # r2.index /\ g.index = r1.index
           /\ layoutFiles[JobDir][r1.index] = r1.val
           /\ layoutFiles[JobDir][r2.index] = r2.val
           /\ processedFiles[JobDir][g.index] = g.val

\* C18 (join before progress): stage 2 is written only when every submitted
\* layout task and every submitted regeneration task has finished; a step
\* of a worker task leaves the progress record alone; and the assembler is
\* called only with stage 2 stored.
C18_JoinBeforeProgress ==
    [][LET Pages(need) == {need[i] : i \in 1..Len(need)}
       IN /\ (wrote' = 2 /\ wrote # 2) =>
                 /\ Finished(ocrPool) = Pages(ocrPool.need)
                 /\ Finished(genPool) = Pages(genPool.need)
                 /\ load_progress(progress', args.input).stage = 2
          /\ (pc = "pools" /\ pc' = "pools") => progress' = progress
          /\ (asm' # asm /\ asm' # "none") =>
                 /\ wrote = 2
                 /\ load_progress(progress, args.input).stage = 2
      ]_vars

\* stage 2 is stored after four layout tasks and a regeneration task have
\* all finished, and the assembler has not been called yet
C18_Witness ==
    /\ pc = "step3"
    /\ wrote = 2 /\ asm = "none"
    /\ Cardinality(ocrPool.done) > PoolWorkers
    /\ genPool.done # {}


\* C19 (raster reuse condition): a run starts step 2 with the stored rasters
\* reused exactly when all N rasters of its job were stored and decodable
\* when it started, whether or not a progress record existed; otherwise it
\* re-derived them and wrote stage 1.
C19_ReuseIffCompleteValidSet ==
    [][(pc = "idle" /\ pc' = "step2") =>
          LET files == originals[create_temp_dirs(args'.input)]
              complete == \A k \in 1..doc[args'.input] : files[k].st = "ok"
              reused == originals' = originals /\ wrote' # 1
          IN reused <=> complete
      ]_vars


\* C20 (raster load order): on a run that reuses the stored rasters,
\* position i of the raster list holds the raster stored as page i, for
\* every page count, so the task of page i works on that page's own raster.
C20_RastersLoadedInPageOrder ==
    [][(pc = "idle" /\ pc' = "step2" /\ originals' = originals
        /\ wrote' # 1) =>
          \A i \in 1..Len(images') :
              images'[i] = originals[create_temp_dirs(args'.input)][i]
      ]_vars


\* what C21 says of the number of calls: none without a merge client or
\* without fragments (the input is returned), and never more than
\* max_retries
MergeCallBudget ==
    /\ (mg.st = "idle" /\ mg'.st # "idle"
        /\ (~mg'.client \/ mg'.text_blocks = <<>>)) =>
           /\ mg'.st = "done"
           /\ mg'.calls = 0
           /\ mg'.result = RawBlocks(mg'.text_blocks)
    /\ (mg'.st # "idle") => mg'.calls <= MergeRetries
    /\ (mg.st = "done") => mg'.st = "idle"

\* C21 as stated (merge call budget): no call without a client or without
\* fragments, at most 3 calls otherwise, and after an attempt whose reply
\* was parsed (json.loads returned a value) the service is not called again.
C21_NoCallAfterParsedReply ==
    [][/\ MergeCallBudget
       /\ (mg.st = "reply" /\ parse_reply(mg.content).ok) =>
              mg'.st # "call"
      ]_vars

\* C21 as the code has it: no call without a client or without fragments,
\* at most 3 calls otherwise, and no call after an attempt whose reply
\* parsed to a list, an object or a string (that value is returned); a reply
\* that parsed to a number, true, false or null is a failed attempt like any
\* other and is followed by the next call while attempts remain.
C21_MergeCallBudget ==
    [][/\ MergeCallBudget
       /\ (mg.st = "reply" /\ parse_reply(mg.content).ok) =>
              IF parse_reply(mg.content).type # "number"
              THEN mg'.st = "done" /\ mg'.calls = mg.calls
              ELSE /\ mg'.calls = mg.calls
                   /\ mg'.st = IF mg.calls < MergeRetries THEN "call"
                               ELSE "fallback"
      ]_vars

\* a first reply that parsed to a number was followed by a second call,
\* whose reply was returned
C21_Witness ==
    /\ mg.st = "done"
    /\ mg.client /\ mg.text_blocks # <<>>
    /\ mg.type_errors = 1 /\ mg.calls = 2
    /\ mg.result.kind = "merged"


\* C22 (fatal input error): a run whose extract_images_from_pdf raises ends
\* there: the progress record and the stored files are what they were, no
\* layout or regeneration task exists, the assembler was not called, and the
\* next thing that happens is the start of another run.
C22_AbortLeavesProgressAlone ==
    [][/\ (runs' = runs + 1 /\ outcome' = "aborted") =>
              /\ progress' = progress
              /\ originals' = originals
              /\ layoutFiles' = layoutFiles
              /\ processedFiles' = processedFiles
              /\ pc' = "idle"
              /\ ocrPool' = EmptyPool /\ genPool' = EmptyPool
              /\ enqueued' = 0
              /\ asm' = "none" /\ assembled' = <<>>
       /\ (outcome = "aborted" /\ runs' = runs) =>
              /\ UNCHANGED <<progress, pc, ocrPool, genPool, asm>>
      ]_vars

\* the run of a job that had reached stage 3 found a damaged raster, could
\* not decode the document and aborted: the record still says stage 3
C22_Witness ==
    /\ outcome = "aborted"
    /\ pc = "idle"
    /\ load_progress(progress, P1).stage = 3
    /\ AnyBad(originals[create_temp_dirs(P1)])


\* C23 (progress record frame): with one process, a call of save_progress
\* or delete_progress for job A leaves the record of every other job as it
\* was; delete_progress for a job without a record changes no record; and
\* save_progress makes A's record the stage and counts it was given.
C23_ProgressFrame ==
    [][(progress' # progress
        \/ (procs'[1].st = "done" /\ procs[1].st # "done"))
          => LET c == procs[1]
             IN /\ c.st = "loaded"
                /\ \A B \in Paths \ {c.input} : progress'[B] = progress[B]
                /\ (c.op = "delete") =>
                       /\ load_progress(progress', c.input) = NoRec
                       /\ (load_progress(progress, c.input) = NoRec
                              => progress' = progress)
                /\ (c.op = "save") =>
                       load_progress(progress', c.input) =
                           [stage |-> c.stage, completed |-> doc[c.input],
                            total |-> doc[c.input]]
      ]_vars

\* save_progress has overwritten the record of one job while two other
\* jobs have records, at other stages
C23_Witness ==
    /\ procs[1].st = "done" /\ procs[1].op = "save"
    /\ procs[1].input = P1
    /\ procs[1].progress[P1].stage = 1
    /\ progress[P1].stage = 2
    /\ progress[P2].stage = 3
    /\ progress[P3].stage = 1


\* C24 (progress file race): save_progress and delete_progress write back
\* the dictionary they read earlier, without a lock: a write of process q
\* sets the record of every job but q's own to what q read, whatever another
\* process has written since. So two processes on different inputs can
\* interleave so that the update of one of them is lost (C24_Witness).
C24_WriteRestoresWhatWasRead ==
    [][\A q \in ProcIds :
          (procs[q].st = "loaded" /\ procs'[q].st = "done") =>
              /\ \A B \in Paths \ {procs[q].input} :
                     progress'[B] = procs[q].progress[B]
              /\ \A r \in ProcIds \ {q} :
                     (/\ procs[r].st = "done" /\ procs[r].op = "save"
                      /\ procs[q].progress[procs[r].input] = NoRec)
                         => progress'[procs[r].input] = NoRec
      ]_vars

\* both calls have returned from their write: process 1 saved stage 2 for
\* its job, process 2 saved stage 3 for its own, and the file holds no
\* record of the job of process 1
C24_Witness ==
    /\ procs[1].st = "done" /\ procs[1].op = "save" /\ procs[1].stage = 2
    /\ procs[2].st = "done" /\ procs[2].op = "save" /\ procs[2].stage = 3
    /\ procs[1].input # procs[2].input
    /\ load_progress(progress, procs[1].input) = NoRec
    /\ load_progress(progress, procs[2].input).stage = 3


\* C25 (termination): when every external call returns or raises in finite
\* time and the scheduler is fair, both pools drain with every submitted
\* task finished, every run of main that is not killed reaches the end of
\* step 3 or aborts, and every call of process_page_with_retry and of
\* merge_text_blocks comes to its return within max_retries service calls:
\* no task is retried for ever.
C25_Termination ==
    /\ (pc = "pools") ~>
           /\ pc = "pools"
           /\ Drained(ocrPool) /\ Drained(genPool)
           /\ Cardinality(Finished(ocrPool)) = Len(ocrPool.need)
           /\ Cardinality(Finished(genPool)) = Len(genPool.need)
    /\ (outcome = "running") ~> (outcome \in {"done", "aborted"})
    /\ (rt.st # "idle") ~> (rt.st = "done" /\ rt.calls <= RegenRetries)
    /\ (mg.st # "idle") ~> (mg.st = "done" /\ mg.calls <= MergeRetries)

\* a run whose pools held an OCR task and a regeneration task for every
\* page has reached the end of step 3
C25_Witness ==
    /\ outcome = "done" /\ pc = "idle"
    /\ asm = "ok"
    /\ enqueued = 0
    /\ Len(assembled) = MaxPages
    /\ load_progress(progress, P1).stage = 3


\* C27 (regenerated artifact stability): once the regenerated image of a
\* page, obtained from the image service, is stored, no step of a later run
\* of the job stores anything else in its place, whatever the flags of the
\* run, unless the job is cleaned.
C27_RegeneratedImageKept ==
    [][\A k \in 1..MaxPages :
          LET file == processedFiles[create_temp_dirs(P1)][k]
              after == processedFiles'[create_temp_dirs(P1)][k]
          IN (file = Regenerated(Raster(k)) /\ after # file) =>
                 (args'.clean /\ outcome' = "cleaned")
      ]_vars


\* C28 (merge result shape): what merge_text_blocks returns is a list of
\* text blocks: its input list, or the list parsed from the reply; a reply
\* that parses to a JSON value that is no list, or to an empty list while
\* the input had fragments, is not returned as the merge result.
C28_MergeReturnsBlockList ==
    (mg.st = "done") =>
        \/ mg.result = RawBlocks(mg.text_blocks)
        \/ /\ mg.result.kind = "merged"
           /\ mg.result.type = "list"
           /\ mg.text_blocks # <<>> => mg.result.len > 0


\* C26 (text block bounds): every text block of a layout returned by
\* extract_text_layout, raw and clamped or returned by the merge step, has
\* its box inside the image: 0 <= x < W, 0 <= y < H, width >= 0,
\* height >= 0, x + width <= W and y + height <= H.
C26_BlocksInsideRaster ==
    (call.st \in {"raw", "layout"}) =>
        /\ 0 <= call.bbox.x /\ call.bbox.x < call.width
        /\ 0 <= call.bbox.y /\ call.bbox.y < call.height
        /\ call.bbox.width >= 0 /\ call.bbox.height >= 0
        /\ call.bbox.x + call.bbox.width <= call.width
        /\ call.bbox.y + call.bbox.height <= call.height


\* C29 (PDF page count): save_images_to_pdf writes one page per image of
\* the sequence it is given, in the given order, whatever the mode (RGB or
\* RGBA) of each image.
C29_OnePagePerImage ==
    (call.st = "saved") =>
        /\ Len(call.pages) = Len(call.images)
        /\ \A i \in 1..Len(call.pages) :
               call.pages[i].page = call.images[i].page


\* C30 (text box placement): every text box has the same relative position
\* and size on the slide as its bbox has in the raster the layout records
\* (x_box / slide_width = bbox.x / original_width, and likewise for y,
\* width and height), whatever the sizes of the images, also on pages whose
\* image is not the size of the first page's; with recorded and actual size
\* equal the bbox is used unscaled. (The quotients are compared up to the
\* two EMU that the conversion to whole EMU can cost.)
C30_BoxKeepsRelativePlace ==
    (call.st = "box") =>
        LET Near(a, b, den) == a - b <= 2 * den /\ b - a <= 2 * den
            ow == call.original.width
            oh == call.original.height
        IN /\ Near(call.x * ow, call.bbox.x * call.slide_width, ow)
           /\ Near(call.width * ow, call.bbox.width * call.slide_width, ow)
           /\ Near(call.y * oh, call.bbox.y * call.slide_height, oh)
           /\ Near(call.height * oh, call.bbox.height * call.slide_height, oh)
           /\ (call.original = call.image) =>
                  /\ call.x = Inches(call.bbox.x, 1)
                  /\ call.y = Inches(call.bbox.y, 1)
                  /\ call.width = Inches(call.bbox.width, 1)
                  /\ call.height = Inches(call.bbox.height, 1)
=============================================================================
